---- MODULE Spec2Model ----
(***************************************************************************)
(* Third Eye (dmarcuse/ed-thirdeye): the application shell of              *)
(* src/src/app/mod.rs - startup load, the per-frame update loop, the       *)
(* message channel drained by handle_messages, the autosave ticker thread, *)
(* the settings modal - and the persistence adapter of                     *)
(* src/src/app/persistence.rs with the RON documents it reads and writes.  *)
(***************************************************************************)
EXTENDS Integers, Sequences, FiniteSets, TLC

(***************************************************************************)
(* Bounds of the model.                                                    *)
(***************************************************************************)
\* largest tile identifier the tile arena hands out
MaxTileId == 6
\* number of messages sent on the channel in one run
MaxMsgs == 3

(***************************************************************************)
(* Values.  std::option::Option<T> is the empty or the one-element         *)
(* sequence.                                                               *)
(***************************************************************************)
None == <<>>

Some(x) == <<x>>

\* egui::ThemePreference
Themes == {"System", "Light", "Dark"}

\* the text the user types into the "Journal folder" field
Texts == {"a"}

\* a PathBuf that is valid UTF-8, and one that is not
Utf8Path == "p"

NonUtf8Path == "non-utf8"

PathBufs == {Utf8Path, NonUtf8Path}

\* enum JournalPath { String(String), Path(PathBuf), Unset }
JournalPath(tag, arg) == [tag |-> tag, arg |-> arg]

Unset == JournalPath("Unset", "")

JournalPaths ==
    {Unset} \cup {JournalPath("String", s) : s \in Texts \cup {""}}
            \cup {JournalPath("Path", p) : p \in PathBufs}

\* JournalPath::default(): dirs::home_dir()/data_dir() joined with the game's
\* directory, or Unset when the platform knows no such directory
JournalPathDefaults ==
    {Unset, JournalPath("Path", Utf8Path)}

\* struct Settings { theme, journal_path }
SettingsValues == [theme : Themes, journal_path : JournalPaths]

\* Settings::default()
SettingsDefaults == [theme : {"System"}, journal_path : JournalPathDefaults]

(***************************************************************************)
(* Panes (src/src/panes) and the tile tree.  egui_tiles::Tree is           *)
(* {root: Option<TileId>, tiles: Tiles}; Tiles is an arena                 *)
(* {next_tile_id, tiles: TileId -> Tile}; a Tile is a Pane or a Container  *)
(* (Tabs with its children and active tab, or a Linear split).             *)
(***************************************************************************)
\* the types implementing TEPane, by the name typetag writes for them
PaneTypes == {"Welcome", "About", "NoStorage"}

\* USER_CREATABLE_PANES of new_pane_menu_ui
USER_CREATABLE_PANES == <<"Welcome", "About">>

\* Option<TileId>::None
NoTile == 0

Pane(p) == [kind |-> "Pane", pane |-> p, children |-> <<>>, active |-> NoTile]

Tabs(children, active) ==
    [kind |-> "Tabs", pane |-> "", children |-> children, active |-> active]

Linear(children) ==
    [kind |-> "Linear", pane |-> "", children |-> children, active |-> NoTile]

IsContainer(tile) == tile.kind \in {"Tabs", "Linear"}

\* Tiles::default()
NoTiles == [i \in {} |-> Pane("Welcome")]

\* the tile map with tile t stored under id
PutTile(tiles, id, t) ==
    [i \in (DOMAIN tiles) \cup {id} |-> IF i = id THEN t ELSE tiles[i]]

\* the tile map without the ids of gone
DropTiles(tiles, gone) == [i \in (DOMAIN tiles) \ gone |-> tiles[i]]

Range(f) == {f[i] : i \in DOMAIN f}

\* seq without the elements that are in gone
Without(seq, gone) == SelectSeq(seq, LAMBDA x : x \notin gone)

\* Tiles::insert_pane / Tiles::insert_new: the tile gets the next identifier
InsertNew(layout, t) ==
    [layout EXCEPT !.tiles = PutTile(layout.tiles, layout.next_tile_id, t),
                   !.next_tile_id = layout.next_tile_id + 1]

\* Tree::new_tabs(id, panes): the panes, then a Tabs container over them as
\* the root, its first child active
NewTabs(panes) ==
    LET n == Len(panes)
        ids == [i \in 1..n |-> i]
    IN  [root |-> n + 1,
         tiles |-> [i \in 1..(n + 1) |->
                      IF i <= n THEN Pane(panes[i])
                      ELSE Tabs(ids, IF n = 0 THEN NoTile ELSE 1)],
         next_tile_id |-> n + 2]

\* Tree::is_empty(): the tree has no root
IsEmpty(layout) == layout.root = NoTile

(***************************************************************************)
(* What the tiling engine does to the tree inside Tree::ui, under the      *)
(* SimplificationOptions of AppBehavior (all_panes_must_have_tabs, the     *)
(* rest default) and with every tab closable.                              *)
(***************************************************************************)
RECURSIVE SimplifyTile(_, _)

RECURSIVE SimplifyChildren(_, _)

\* Tiles::simplify on the children of a container, left to right: a child is
\* kept, removed, or replaced by its only child
SimplifyChildren(tiles, children) ==
    IF children = <<>> THEN [tiles |-> tiles, children |-> <<>>]
    ELSE LET r == SimplifyTile(tiles, Head(children))
             rest == SimplifyChildren(r.tiles, Tail(children))
             kept == CASE r.act = "Keep" -> <<Head(children)>>
                      [] r.act = "Remove" -> <<>>
                      [] r.act = "Replace" -> <<r.to>>
         IN  [tiles |-> rest.tiles, children |-> kept \o rest.children]

\* Tiles::simplify: an absent tile and an empty container are removed, a
\* container with one child is replaced by it, except a Tabs over a single
\* pane, which all_panes_must_have_tabs keeps
SimplifyTile(tiles, id) ==
    IF id \notin DOMAIN tiles
    THEN [act |-> "Remove", to |-> NoTile, tiles |-> tiles]
    ELSE LET t == tiles[id] IN
         IF ~IsContainer(t)
         THEN [act |-> "Keep", to |-> id, tiles |-> tiles]
         ELSE LET c == SimplifyChildren(DropTiles(tiles, {id}), t.children)
                  only == c.children[1]
                  keepSingle == /\ t.kind = "Tabs"
                                /\ only \in DOMAIN c.tiles
                                /\ c.tiles[only].kind = "Pane"
              IN  IF c.children = <<>>
                  THEN [act |-> "Remove", to |-> NoTile, tiles |-> c.tiles]
                  ELSE IF Len(c.children) = 1 /\ ~keepSingle
                  THEN [act |-> "Replace", to |-> only, tiles |-> c.tiles]
                  ELSE [act |-> "Keep", to |-> id,
                        tiles |-> PutTile(c.tiles, id,
                                          [t EXCEPT !.children = c.children])]

\* the panes that all_panes_must_have_tabs wraps: the root when it is a bare
\* pane, and the panes that are children of a Linear container
BarePanes(layout) ==
    {i \in DOMAIN layout.tiles :
        /\ layout.tiles[i].kind = "Pane"
        /\ \/ i = layout.root
           \/ \E c \in DOMAIN layout.tiles :
                /\ layout.tiles[c].kind = "Linear"
                /\ i \in Range(layout.tiles[c].children)}

RECURSIVE WrapPanes(_, _)

\* Tiles::make_all_panes_children_of_tabs: each bare pane moves to a fresh
\* identifier and a Tabs container over it takes the pane's old identifier
WrapPanes(layout, bare) ==
    IF bare = {} THEN layout
    ELSE LET it == CHOOSE i \in bare : \A j \in bare : i <= j
             new_id == layout.next_tile_id
             moved == PutTile(PutTile(layout.tiles, new_id, layout.tiles[it]),
                              it, Tabs(<<new_id>>, new_id))
         IN  WrapPanes([layout EXCEPT !.tiles = moved,
                                      !.next_tile_id = new_id + 1],
                       bare \ {it})

RECURSIVE Reachable(_, _)

\* the tiles reached from the identifiers of front through children
Reachable(tiles, front) ==
    LET here == front \cap DOMAIN tiles
        next == UNION {Range(tiles[i].children) : i \in here}
    IN  IF here = {} THEN {} ELSE here \cup Reachable(DropTiles(tiles, here), next)

\* Tiles::gc_root: the tiles not reached from the root are dropped
Gc(layout) ==
    LET live == Reachable(layout.tiles, {layout.root})
    IN  [layout EXCEPT !.tiles = DropTiles(layout.tiles, DOMAIN layout.tiles \ live)]

\* Tabs::ensure_active: an active tab that is no child becomes the first child
EnsureActive(layout) ==
    [layout EXCEPT !.tiles =
        [i \in DOMAIN layout.tiles |->
            LET t == layout.tiles[i] IN
            IF t.kind = "Tabs" /\ t.active \notin Range(t.children)
            THEN [t EXCEPT !.active = IF t.children = <<>> THEN NoTile
                                      ELSE t.children[1]]
            ELSE t]]

\* Tree::simplify: the root is simplified, then bare panes get their tabs
Simplify(layout) ==
    IF layout.root = NoTile THEN layout
    ELSE LET r == SimplifyTile(layout.tiles, layout.root)
             root == CASE r.act = "Keep" -> layout.root
                      [] r.act = "Remove" -> NoTile
                      [] r.act = "Replace" -> r.to
             pruned == [layout EXCEPT !.root = root, !.tiles = r.tiles]
         IN  WrapPanes(pruned, BarePanes(pruned))

\* the start of Tree::ui: simplify, collect garbage, fix the active tabs, each
\* pass working on the tree the pass before it left
Normalize(layout) ==
    CHOOSE done \in {EnsureActive(g) : g \in {Gc(s) : s \in {Simplify(layout)}}} :
        TRUE

\* Tree::remove_recursively(id): id leaves its parent's children, and id and
\* the tiles below it leave the arena
RemoveRecursively(layout, id) ==
    LET gone == Reachable(layout.tiles, {id})
        rest == DropTiles(layout.tiles, gone)
    IN  [layout EXCEPT !.tiles =
            [i \in DOMAIN rest |->
                [rest[i] EXCEPT !.children = Without(rest[i].children, {id})]]]

(***************************************************************************)
(* The RON documents.  A document is the sequence of the tokens written;   *)
(* a file that was cut short holds a proper prefix of them.                *)
(***************************************************************************)
Tok(k, tag, arg) == [k |-> k, tag |-> tag, arg |-> arg]

Open == Tok("(", "", "")

Close == Tok(")", "", "")

\* what is left of a token whose value could not be written
Torn == Tok("torn", "", "")

\* serde's Serialize for Path: a path that is not UTF-8 is an error
PathSerializable(jp) == jp.tag = "Path" => jp.arg # NonUtf8Path

\* ron::ser::to_writer_pretty on a Settings: the tokens handed to the writer,
\* and whether serialization reached the end
EncodeSettings(s) ==
    IF PathSerializable(s.journal_path)
    THEN [ok |-> TRUE,
          out |-> <<Open, Tok("theme", s.theme, ""),
                    Tok("journal_path", s.journal_path.tag, s.journal_path.arg),
                    Close>>]
    ELSE [ok |-> FALSE, out |-> <<Open, Tok("theme", s.theme, ""), Torn>>]

\* the fields of a document between its parentheses
Fields(doc) == SubSeq(doc, 2, Len(doc) - 1)

Named(doc, k) == SelectSeq(Fields(doc), LAMBDA t : t.k = k)

\* ron::de::from_reader for Settings as #[derive(Deserialize)] reads it: the
\* document is one parenthesised struct, each field of Settings is there
\* once with a value of its type, and fields of other names are skipped
DecodeSettings(doc) ==
    LET wellFormed ==
            /\ Len(doc) >= 2
            /\ doc[1] = Open
            /\ doc[Len(doc)] = Close
            /\ \A i \in 2..(Len(doc) - 1) : doc[i].k \notin {"(", ")", "torn"}
        theme == Named(doc, "theme")
        jp == Named(doc, "journal_path")
        typed ==
            /\ Len(theme) = 1
            /\ theme[1].tag \in Themes
            /\ Len(jp) = 1
            /\ jp[1].tag \in {"String", "Path", "Unset"}
    IN  IF wellFormed /\ typed
        THEN [ok |-> TRUE,
              value |-> [theme |-> theme[1].tag,
                         journal_path |-> JournalPath(jp[1].tag, jp[1].arg)]]
        ELSE [ok |-> FALSE, value |-> None]

\* one token of a layout document: the header of the tree, or one tile
TreeTok(root, next) ==
    [k |-> "Tree", id |-> root, tag |-> "", children |-> <<>>, n |-> next]

TileTok(id, t) ==
    [k |-> "Tile", id |-> id,
     tag |-> IF t.kind = "Pane" THEN t.pane ELSE t.kind,
     children |-> t.children, n |-> t.active]

EndTok == [k |-> "End", id |-> NoTile, tag |-> "", children |-> <<>>, n |-> 0]

RECURSIVE TileToks(_, _)

\* the tiles of ids, in the order of their identifiers
TileToks(tiles, ids) ==
    IF ids = {} THEN <<>>
    ELSE LET i == CHOOSE x \in ids : \A y \in ids : x <= y
         IN  <<TileTok(i, tiles[i])>> \o TileToks(tiles, ids \ {i})

\* ron::ser::to_writer_pretty on a Tree<Box<dyn TEPane>>: root, the arena's
\* counter and tiles, each pane under the name typetag gives its type
EncodeLayout(layout) ==
    [ok |-> TRUE,
     out |-> <<TreeTok(layout.root, layout.next_tile_id)>>
                \o TileToks(layout.tiles, DOMAIN layout.tiles) \o <<EndTok>>]

\* ron::de::from_reader for a Tree<Box<dyn TEPane>>: the document is whole
\* and every pane carries the name of a registered pane type
DecodeLayout(doc) ==
    LET n == Len(doc)
        wellFormed ==
            /\ n >= 2
            /\ doc[1].k = "Tree"
            /\ doc[n] = EndTok
            /\ \A i \in 2..(n - 1) :
                 /\ doc[i].k = "Tile"
                 /\ doc[i].tag \in PaneTypes \cup {"Tabs", "Linear"}
        tileOf(t) == CASE t.tag = "Tabs" -> Tabs(t.children, t.n)
                      [] t.tag = "Linear" -> Linear(t.children)
                      [] OTHER -> Pane(t.tag)
        ids == {doc[i].id : i \in 2..(n - 1)}
    IN  IF wellFormed
        THEN [ok |-> TRUE,
              value |-> [root |-> doc[1].id,
                         tiles |-> [id \in ids |->
                                      tileOf(doc[CHOOSE i \in 2..(n - 1) :
                                                   doc[i].id = id])],
                         next_tile_id |-> doc[1].n]]
        ELSE [ok |-> FALSE, value |-> None]

(***************************************************************************)
(* Files and the persistence adapter (src/src/app/persistence.rs).         *)
(***************************************************************************)
SETTINGS_FILE == "settings.ron"

LAYOUT_FILE == "layout.ron"

Paths == {SETTINGS_FILE, LAYOUT_FILE}

\* a path where no file is
NoFile == [exists |-> FALSE, readable |-> FALSE, data |-> <<>>]

\* a file, with what it holds and whether this user may open it
File(data) == [exists |-> TRUE, readable |-> TRUE, data |-> data]

Locked(data) == [exists |-> TRUE, readable |-> FALSE, data |-> data]

Decode(path, doc) ==
    IF path = SETTINGS_FILE THEN DecodeSettings(doc) ELSE DecodeLayout(doc)

Encode(path, value) ==
    IF path = SETTINGS_FILE THEN EncodeSettings(value) ELSE EncodeLayout(value)

\* Result<Option<T>, PersistenceError>
Ok(x) == [ok |-> TRUE, err |-> "", value |-> x]

Err(e) == [ok |-> FALSE, err |-> e, value |-> None]

\* load_data taking every failure to open the file for a missing file
load_data_any_open_error(disk, path) ==
    LET f == disk[path] IN
    IF ~f.exists \/ ~f.readable THEN Ok(None)
    ELSE LET d == Decode(path, f.data)
         IN  IF d.ok THEN Ok(Some(d.value)) ELSE Err("RonSpannedError")

\* load_data(path): Ok(None) when File::open reports NotFound, the error for
\* any other failure to open, else what from_reader makes of the content
load_data(disk, path) ==
    LET f == disk[path] IN
    IF ~f.exists THEN Ok(None)
    ELSE IF ~f.readable THEN Err("IoError")
    ELSE LET d == Decode(path, f.data)
         IN  IF d.ok THEN Ok(Some(d.value)) ELSE Err("RonSpannedError")

\* what can go wrong in the file system during one save_data
Faults == {"none", "create_dir_all", "create", "write"}

\* the documents a file may hold after a write that failed part-way
Prefixes(doc) == {SubSeq(doc, 1, n) : n \in 0..(Len(doc) - 1)}

\* save_data(data, path): create_dir_all and File::create report their
\* errors with `?` and leave the file as it was; File::create empties the
\* file; to_writer_pretty writes into a BufWriter and reports an encoding
\* error; the BufWriter is dropped inside to_writer_pretty, and a write error
\* during the flush of that drop is discarded, so Ok(()) is returned with
\* only `torn` of the document in the file
save_data(disk, path, data, fault, torn) ==
    LET f == disk[path]
        enc == Encode(path, data)
        put(doc) == [disk EXCEPT ![path] = File(doc)]
    IN  IF fault = "create_dir_all" THEN [res |-> Err("IoError"), disk |-> disk]
        ELSE IF fault = "create" \/ (f.exists /\ ~f.readable)
        THEN [res |-> Err("IoError"), disk |-> disk]
        ELSE IF ~enc.ok
        THEN [res |-> Err("RonError"),
              disk |-> put(IF fault = "write" THEN <<>> ELSE enc.out)]
        ELSE IF fault = "write" THEN [res |-> Ok(None), disk |-> put(torn)]
        ELSE [res |-> Ok(None), disk |-> put(enc.out)]

\* the steps of save_data at which the process may be stopped: before
\* File::create, after it with nothing written, or while the document is
\* written
Steps == {"create_dir_all", "create", "write"}

\* an interrupted save that opens the file without emptying it: what is
\* written replaces the head of the old content
interrupted_save_no_truncate(disk, path, step, torn) ==
    LET f == disk[path]
        mixed == IF step = "write"
                 THEN torn \o SubSeq(f.data, Len(torn) + 1, Len(f.data))
                 ELSE f.data
    IN  IF step = "create_dir_all" \/ (f.exists /\ ~f.readable) THEN disk
        ELSE [disk EXCEPT ![path] = File(mixed)]

\* save_data stopped with the process (killed, power lost) at step, with
\* `torn` of the document written: File::create has emptied the file by
\* then, unless it was not reached or failed
interrupted_save(disk, path, step, torn) ==
    LET f == disk[path] IN
    IF step = "create_dir_all" \/ (f.exists /\ ~f.readable) THEN disk
    ELSE [disk EXCEPT ![path] = File(IF step = "write" THEN torn ELSE <<>>)]

(***************************************************************************)
(* The state of the program.                                               *)
(***************************************************************************)
VARIABLES
    pc,               \* where the UI thread is: before App::init, between
                      \* frames, at a step of App::update, in on_exit, gone,
                      \* or stopped by a panic
    disk,             \* the files of data_dir
    settings,         \* App.settings
    layout,           \* App.layout
    settings_editor,  \* App.settings_editor: Option<SettingsEditor>
    queue,            \* the messages in the channel, oldest first
    rx,               \* whether App.message_rx exists
    ticker,           \* where the autosave thread is
    ctx,              \* egui::Context: the theme that was set, and whether
                      \* a repaint is requested
    io,               \* the last call of the persistence adapter made alone
    sent,             \* history: how many messages were enqueued
    applied,          \* history: how many messages handle_messages applied
    carried,          \* history: how many of the queued messages were
                      \* enqueued before the current frame began
    emptied,          \* history: whether the current frame began with a
                      \* tree of no tiles
    drained,          \* history: the messages applied by the current drain
    last,             \* history: the last message applied by the current
                      \* drain, the state it met and what was logged
    opened_with,      \* history: the live Settings when the modal was opened
    boot              \* history: what the two loads of App::init returned

vars ==
    <<pc, disk, settings, layout, settings_editor, queue, rx, ticker, ctx, io,
      sent, applied, carried, emptied, drained, last, opened_with, boot>>

\* enum Message; with it, as history, the position n of the message among
\* all that were sent and the phase the UI thread was in at the time
AutoSave(n, at) ==
    [type |-> "AutoSave", parent |-> NoTile, pane |-> "",
     new_settings |-> None, n |-> n, at |-> at]

AddPane(parent, pane, n, at) ==
    [type |-> "AddPane", parent |-> parent, pane |-> pane,
     new_settings |-> None, n |-> n, at |-> at]

CloseSettingsModal(new_settings, n, at) ==
    [type |-> "CloseSettingsModal", parent |-> NoTile, pane |-> "",
     new_settings |-> new_settings, n |-> n, at |-> at]

\* a tree with no tiles
EmptyTree == [root |-> NoTile, tiles |-> NoTiles, next_tile_id |-> 1]

\* no persistence call yet
NoIo ==
    [op |-> "", path |-> "", value |-> None, res |-> Ok(None), after |-> None,
     old |-> Ok(None), new |-> None]

(***************************************************************************)
(* The data directory the program may find at startup.                     *)
(***************************************************************************)
\* settings a previous run saved
SavedSettings == [theme |-> "Dark", journal_path |-> JournalPath("String", "a")]

\* a layout a previous run saved: a horizontal split of two tab groups
SavedLayout ==
    [root |-> 5,
     tiles |-> <<Pane("Welcome"), Pane("About"), Tabs(<<1>>, 1), Tabs(<<2>>, 2),
                 Linear(<<3, 4>>)>>,
     next_tile_id |-> 6]

\* a layout document with a pane of a type this build does not know
UnknownPaneDoc ==
    <<TreeTok(2, 3), TileTok(1, Pane("Journal")),
      TileTok(2, Tabs(<<1>>, 1)), EndTok>>

\* a settings document of a version that had no theme yet
OldSettingsDoc ==
    <<Open, Tok("journal_path", "String", "a"), Close>>

InitSettingsFiles ==
    {NoFile,
     Locked(EncodeSettings(SavedSettings).out),
     File(EncodeSettings(SavedSettings).out),
     File(SubSeq(EncodeSettings(SavedSettings).out, 1, 2)),
     File(OldSettingsDoc)}

InitLayoutFiles ==
    {NoFile,
     Locked(EncodeLayout(SavedLayout).out),
     File(EncodeLayout(SavedLayout).out),
     File(UnknownPaneDoc),
     File(SubSeq(EncodeLayout(SavedLayout).out, 1, 3))}

InitDisks ==
    {[p \in Paths |-> IF p = SETTINGS_FILE THEN s ELSE l] :
        s \in InitSettingsFiles, l \in InitLayoutFiles}

\* the data directory of a first run, and the one a previous run left
FirstRunDisk == [p \in Paths |-> NoFile]

SecondRunDisk ==
    [p \in Paths |-> IF p = SETTINGS_FILE
                     THEN File(EncodeSettings(SavedSettings).out)
                     ELSE NoFile]

\* the program before App::init, in a data directory of disks
Start(disks) ==
    /\ pc = "start"
    /\ disk \in disks
    /\ settings = [theme |-> "System", journal_path |-> Unset]
    /\ layout = EmptyTree
    /\ settings_editor = None
    /\ queue = <<>>
    /\ rx = FALSE
    /\ ticker = "unborn"
    /\ ctx = [theme |-> "System", repaint |-> FALSE]
    /\ io = NoIo
    /\ sent = 0
    /\ applied = 0
    /\ carried = 0
    /\ emptied = FALSE
    /\ drained = <<>>
    /\ last = None
    /\ opened_with = None
    /\ boot = None

(***************************************************************************)
(* App (src/src/app/mod.rs).                                               *)
(***************************************************************************)
\* the part of a document that reaches the file when the application's
\* buffered write fails: the buffer goes out in one write, which failed
AppTorn == <<>>

\* an App::save_data that returns at the first error
App_save_data_until_error(d, s, l, f1, f2) ==
    LET a == save_data(d, SETTINGS_FILE, s, f1, AppTorn)
        b == save_data(a.disk, LAYOUT_FILE, l, f2, AppTorn)
    IN  IF a.res.ok
        THEN [disk |-> b.disk,
              res |-> <<a.res, b.res>>,
              log |-> <<"info: saving persistent data...">>
                      \o (IF b.res.ok THEN <<>> ELSE <<"warn: error saving layout">>)]
        ELSE [disk |-> a.disk,
              res |-> <<a.res>>,
              log |-> <<"info: saving persistent data...",
                        "warn: error saving settings">>]

\* App::save_data: the settings, then the layout, each error only logged
App_save_data(d, s, l, f1, f2) ==
    LET a == save_data(d, SETTINGS_FILE, s, f1, AppTorn)
        b == save_data(a.disk, LAYOUT_FILE, l, f2, AppTorn)
    IN  [disk |-> b.disk,
         res |-> <<a.res, b.res>>,
         log |-> <<"info: saving persistent data...">>
                 \o (IF a.res.ok THEN <<>> ELSE <<"warn: error saving settings">>)
                 \o (IF b.res.ok THEN <<>> ELSE <<"warn: error saving layout">>)]

\* App::apply_settings: a repaint is requested and the theme of the
\* settings is set
apply_settings(s) == [theme |-> s.theme, repaint |-> TRUE]

\* an App::init that starts with the default settings whatever the file holds
InitSettings_ignoring_file(loaded, default) == default

\* the settings App::init starts with: the loaded ones, the default when
\* there is no file or the load failed
InitSettings(loaded, default) ==
    IF loaded.ok /\ loaded.value # None THEN loaded.value[1] ELSE default

\* the layout App::init starts with: the loaded one, a tab group with a
\* Welcome pane when there is no file, and the same when the load failed
InitLayout(loaded) ==
    IF loaded.ok /\ loaded.value # None THEN loaded.value[1]
    ELSE IF loaded.ok THEN NewTabs(<<"Welcome">>)
    ELSE NewTabs(<<"Welcome">>)

\* App::init: load settings and layout, create the channel, spawn the
\* autosave thread, apply the settings
App_init(defaults) ==
    /\ pc = "start"
    /\ \E default \in defaults :
         LET ls == load_data(disk, SETTINGS_FILE)
             ll == load_data(disk, LAYOUT_FILE)
             s == InitSettings(ls, default)
         IN  /\ settings' = s
             /\ layout' = InitLayout(ll)
             /\ ctx' = apply_settings(s)
             /\ boot' = Some([settings |-> ls, layout |-> ll, default |-> default])
    /\ queue' = <<>>
    /\ rx' = TRUE
    /\ ticker' = "sleep"
    /\ settings_editor' = None
    /\ pc' = "idle"
    /\ UNCHANGED <<disk, io, sent, applied, carried, emptied, drained, last, opened_with>>

\* avoid_empty_layout with the pane inserted and the root left unset
avoid_empty_layout_no_root(l) ==
    IF IsEmpty(l) THEN InsertNew(l, Pane("Welcome")) ELSE l

\* App::avoid_empty_layout: an empty tree gets a Welcome pane as its root
avoid_empty_layout(l) ==
    IF IsEmpty(l)
    THEN [InsertNew(l, Pane("Welcome")) EXCEPT !.root = l.next_tile_id]
    ELSE l

\* App::update, its first lines: handle_global_hotkeys (which changes the
\* debug style only) and avoid_empty_layout; the frame that begins is the
\* one a repaint was requested for, if one was
Update_begin ==
    /\ pc = "idle"
    /\ avoid_empty_layout(layout).next_tile_id - 1 <= MaxTileId
    /\ layout' = avoid_empty_layout(layout)
    /\ carried' = Len(queue)
    /\ emptied' = (DOMAIN layout.tiles = {})
    /\ ctx' = [ctx EXCEPT !.repaint = FALSE]
    /\ pc' = "toolbar"
    /\ UNCHANGED <<disk, settings, settings_editor, queue, rx, ticker, io,
                   sent, applied, drained, last, opened_with, boot>>

\* App::update, the toolbar: a click on "Settings" opens the editor on a copy
\* of the live settings
Toolbar ==
    /\ pc = "toolbar"
    /\ \E clicked \in BOOLEAN :
         IF clicked
         THEN /\ settings_editor' = Some(settings)
              /\ opened_with' = Some(settings)
         ELSE UNCHANGED <<settings_editor, opened_with>>
    /\ pc' = "tiles"
    /\ UNCHANGED <<disk, settings, layout, queue, rx, ticker, ctx, io,
                   sent, applied, carried, emptied, drained, last, boot>>

\* App::update, self.layout.ui(..): the engine first simplifies the tree
Tiles_begin ==
    /\ pc = "tiles"
    /\ Simplify(layout).next_tile_id - 1 <= MaxTileId
    /\ layout' = Normalize(layout)
    /\ emptied' = FALSE
    /\ pc' = "tiles_ui"
    /\ UNCHANGED <<disk, settings, settings_editor, queue, rx, ticker, ctx, io,
                   sent, applied, carried, drained, last, opened_with, boot>>

\* Sender::send: the message joins the queue
Send(q, m) == Append(q, m)

\* the part of the frame cycle the UI thread is in: between two frames,
\* inside App::update with the drain still ahead or going on, or inside
\* App::update with the drain over
Phase ==
    CASE pc = "returning" -> "returning"
      [] pc \in {"toolbar", "tiles", "tiles_ui", "modal", "drain"} -> "frame"
      [] OTHER -> "between"

\* the tiles that have a tab bar: the engine calls top_bar_right_ui for these
TabBars(l) == {i \in DOMAIN l.tiles : l.tiles[i].kind = "Tabs"}

\* AppBehavior::top_bar_right_ui: an entry of the "+" menu of the tab bar of
\* tile_id is clicked, and AddPane for a new pane of that type is sent; the
\* result of send is unwrapped, so a send without a receiver panics
top_bar_right_ui ==
    /\ pc = "tiles_ui"
    /\ sent < MaxMsgs
    /\ \E tile_id \in TabBars(layout),
          i \in DOMAIN USER_CREATABLE_PANES :
         IF rx
         THEN /\ queue' = Send(queue, AddPane(tile_id, USER_CREATABLE_PANES[i],
                                              sent + 1, Phase))
              /\ sent' = sent + 1
              /\ pc' = pc
         ELSE /\ pc' = "panicked"
              /\ UNCHANGED <<queue, sent>>
    /\ UNCHANGED <<disk, settings, layout, settings_editor, rx, ticker, ctx,
                   io, applied, carried, emptied, drained, last, opened_with, boot>>

\* the tabs the user can close: is_tab_closable is true of each child of a
\* Tabs container
ClosableTabs(l) ==
    UNION {Range(l.tiles[c].children) : c \in {i \in DOMAIN l.tiles :
                                                 l.tiles[i].kind = "Tabs"}}

\* the close button of a tab is clicked inside self.layout.ui(..)
Close_tab ==
    /\ pc = "tiles_ui"
    /\ \E id \in ClosableTabs(layout) : layout' = RemoveRecursively(layout, id)
    /\ UNCHANGED <<pc, disk, settings, settings_editor, queue, rx, ticker, ctx,
                   io, sent, applied, carried, emptied, drained, last, opened_with, boot>>

\* self.layout.ui(..) returns
Tiles_end ==
    /\ pc = "tiles_ui"
    /\ pc' = "modal"
    /\ UNCHANGED <<disk, settings, layout, settings_editor, queue, rx, ticker,
                   ctx, io, sent, applied, carried, emptied, drained, last, opened_with,
                   boot>>

\* what the user does to the settings modal in one frame: picks a theme or
\* not, edits the journal folder to some text or not, presses a button or not
Buttons == {"", "Cancel", "Save"}

\* SettingsEditor::ui, the grid: the radio buttons set the draft's theme, an
\* edit of the text field makes the draft's journal path the String typed
edit_draft(draft, theme, text) ==
    [theme |-> IF theme = None THEN draft.theme ELSE theme[1],
     journal_path |-> IF text = None THEN draft.journal_path
                      ELSE JournalPath("String", text[1])]

\* SettingsEditor::ui, the buttons: Cancel closes with no settings, Save
\* closes with a copy of the draft
editor_message(draft, button) ==
    CASE button = "Cancel" -> Some(None)
      [] button = "Save" -> Some(Some(draft))
      [] OTHER -> None

\* App::update, the modal: shown while the editor exists; the message its ui
\* returns is sent, and the result of send is unwrapped, so a send without a
\* receiver panics
Modal(themes, texts) ==
    /\ pc = "modal"
    /\ IF settings_editor = None
       THEN /\ pc' = "drain"
            /\ UNCHANGED <<settings_editor, queue, sent>>
       ELSE \E theme \in {None} \cup {Some(t) : t \in themes},
               text \in {None} \cup {Some(t) : t \in texts},
               button \in Buttons :
              LET draft == edit_draft(settings_editor[1], theme, text)
                  msg == editor_message(draft, button)
              IN  /\ settings_editor' = Some(draft)
                  /\ CASE msg = None ->
                            /\ pc' = "drain"
                            /\ UNCHANGED <<queue, sent>>
                       [] msg # None /\ rx ->
                            /\ sent < MaxMsgs
                            /\ queue' = Send(queue, CloseSettingsModal(msg[1], sent + 1,
                                                                       Phase))
                            /\ sent' = sent + 1
                            /\ pc' = "drain"
                       [] msg # None /\ ~rx ->
                            /\ pc' = "panicked"
                            /\ UNCHANGED <<queue, sent>>
    /\ UNCHANGED <<disk, settings, layout, rx, ticker, ctx, io, applied,
                   carried, emptied, drained, last, opened_with, boot>>

\* a receiver that hands out the newest message first
RecvNewest(q) == [msg |-> q[Len(q)], rest |-> SubSeq(q, 1, Len(q) - 1)]

\* Receiver::try_iter, one step: the oldest message and the rest
Recv(q) == [msg |-> Head(q), rest |-> Tail(q)]

\* the AddPane arm without tabs.set_active(child)
add_pane_keeps_active(l, parent, pane) ==
    LET child == l.next_tile_id
        inserted == InsertNew(l, Pane(pane))
    IN  IF parent \in DOMAIN inserted.tiles /\ IsContainer(inserted.tiles[parent])
        THEN LET p == inserted.tiles[parent]
                 q == [p EXCEPT !.children = Append(p.children, child)]
             IN  [layout |-> [inserted EXCEPT !.tiles[parent] = q],
                  log |-> <<>>]
        ELSE [layout |-> inserted,
              log |-> <<"warn: cannot open a new pane in non-container parent">>]

\* handle_messages, the AddPane arm: the pane is inserted in the arena; a
\* parent that is a container gets it as its last child, and as its active
\* tab when it is a Tabs; any other parent is a warning
add_pane(l, parent, pane) ==
    LET child == l.next_tile_id
        inserted == InsertNew(l, Pane(pane))
    IN  IF parent \in DOMAIN inserted.tiles /\ IsContainer(inserted.tiles[parent])
        THEN LET p == inserted.tiles[parent]
                 q == [p EXCEPT !.children = Append(p.children, child),
                                !.active = IF p.kind = "Tabs" THEN child
                                           ELSE p.active]
             IN  [layout |-> [inserted EXCEPT !.tiles[parent] = q],
                  log |-> <<>>]
        ELSE [layout |-> inserted,
              log |-> <<"warn: cannot open a new pane in non-container parent">>]

\* the CloseSettingsModal arm applying the settings on every close
close_settings_modal_always_applies(s, c, new_settings) ==
    LET now == IF new_settings # None THEN new_settings[1] ELSE s
    IN  [settings_editor |-> None, settings |-> now, ctx |-> apply_settings(now),
         log |-> <<"request_repaint", "set_theme">>]

\* the CloseSettingsModal arm putting the settings back to System and Unset
\* on Cancel
close_settings_modal_resets_on_cancel(s, c, new_settings) ==
    [settings_editor |-> None,
     settings |-> IF new_settings # None THEN new_settings[1]
                  ELSE [theme |-> "System", journal_path |-> Unset],
     ctx |-> IF new_settings # None THEN apply_settings(new_settings[1]) ELSE c,
     log |-> IF new_settings # None THEN <<"request_repaint", "set_theme">> ELSE <<>>]

\* the CloseSettingsModal arm leaving an editor open on Cancel
close_settings_modal_keeps_editor(s, c, new_settings) ==
    [settings_editor |-> IF new_settings # None THEN None ELSE Some(s),
     settings |-> IF new_settings # None THEN new_settings[1] ELSE s,
     ctx |-> IF new_settings # None THEN apply_settings(new_settings[1]) ELSE c,
     log |-> IF new_settings # None THEN <<"request_repaint", "set_theme">> ELSE <<>>]

\* the CloseSettingsModal arm storing the settings without applying them
close_settings_modal_never_applies(s, c, new_settings) ==
    [settings_editor |-> None,
     settings |-> IF new_settings # None THEN new_settings[1] ELSE s,
     ctx |-> c, log |-> <<>>]

\* handle_messages, the CloseSettingsModal arm: the editor goes; settings
\* that came with the message become the live ones and are applied
close_settings_modal(s, c, new_settings) ==
    IF new_settings # None
    THEN [settings_editor |-> None, settings |-> new_settings[1],
          ctx |-> apply_settings(new_settings[1]),
          log |-> <<"request_repaint", "set_theme">>]
    ELSE [settings_editor |-> None, settings |-> s, ctx |-> c, log |-> <<>>]

\* a drain that takes one message a frame
DrainDoneAfterOne(q, done) == q = <<>> \/ Len(done) >= 1

\* try_iter ends the loop of handle_messages when the channel is empty
DrainDone(q, done) == q = <<>>

\* the state a message meets, kept while the drain goes on
Snapshot ==
    [settings |-> settings, settings_editor |-> settings_editor,
     layout |-> layout, ctx |-> ctx, disk |-> disk, opened_with |-> opened_with]

\* handle_messages, one turn of its loop: the next message is taken from the
\* channel and applied
Handle_message(faults) ==
    /\ pc = "drain"
    /\ ~DrainDone(queue, drained)
    /\ LET r == Recv(queue)
           m == r.msg
       IN  /\ queue' = r.rest
           /\ drained' = Append(drained, m)
           /\ CASE m.type = "AutoSave" ->
                    \E f1 \in faults, f2 \in faults :
                      LET w == App_save_data(disk, settings, layout, f1, f2)
                      IN  /\ disk' = w.disk
                          /\ last' = Some([msg |-> m, pre |-> Snapshot, log |-> w.log])
                          /\ UNCHANGED <<settings, layout, settings_editor, ctx,
                                         opened_with>>
                [] m.type = "AddPane" ->
                    LET a == add_pane(layout, m.parent, m.pane)
                    IN  /\ layout.next_tile_id <= MaxTileId
                        /\ layout' = a.layout
                        /\ last' = Some([msg |-> m, pre |-> Snapshot, log |-> a.log])
                        /\ UNCHANGED <<disk, settings, settings_editor, ctx,
                                       opened_with>>
                [] m.type = "CloseSettingsModal" ->
                    LET c == close_settings_modal(settings, ctx, m.new_settings)
                    IN  /\ settings_editor' = c.settings_editor
                        /\ settings' = c.settings
                        /\ ctx' = c.ctx
                        /\ opened_with' = None
                        /\ last' = Some([msg |-> m, pre |-> Snapshot, log |-> c.log])
                        /\ UNCHANGED <<disk, layout>>
    /\ carried' = IF carried > 0 THEN carried - 1 ELSE 0
    /\ applied' = applied + 1
    /\ UNCHANGED <<pc, rx, ticker, io, sent, emptied, boot>>

\* handle_messages leaves its loop when try_iter finds the channel empty
Drain_end ==
    /\ pc = "drain"
    /\ DrainDone(queue, drained)
    /\ pc' = "returning"
    /\ drained' = <<>>
    /\ last' = None
    /\ UNCHANGED <<disk, settings, layout, settings_editor, queue, rx, ticker,
                   ctx, io, sent, applied, carried, emptied, opened_with, boot>>

\* handle_messages and App::update return, and the frame is over
Update_end ==
    /\ pc = "returning"
    /\ pc' = "idle"
    /\ UNCHANGED <<disk, settings, layout, settings_editor, queue, rx, ticker,
                   ctx, io, sent, applied, carried, emptied, drained, last,
                   opened_with, boot>>

\* an on_exit that does not save
on_exit_without_save(faults) ==
    /\ pc = "idle"
    /\ pc' = "exiting"
    /\ UNCHANGED <<disk, settings, layout, settings_editor, queue, rx, ticker,
                   ctx, io, sent, applied, carried, emptied, drained, last,
                   opened_with, boot>>

\* App::on_exit, called once the last frame is over: a last save
on_exit(faults) ==
    /\ pc = "idle"
    /\ \E f1 \in faults, f2 \in faults :
         disk' = App_save_data(disk, settings, layout, f1, f2).disk
    /\ pc' = "exiting"
    /\ UNCHANGED <<settings, layout, settings_editor, queue, rx, ticker, ctx, io,
                   sent, applied, carried, emptied, drained, last, opened_with, boot>>

\* an App whose receiver can go while App::update draws the tiles or the modal
Drop_app_in_update ==
    /\ pc \in {"tiles_ui", "modal", "exiting"}
    /\ rx' = FALSE
    /\ queue' = <<>>
    /\ pc' = IF pc = "exiting" THEN "exited" ELSE pc
    /\ UNCHANGED <<disk, settings, layout, settings_editor, ticker, ctx, io,
                   sent, applied, carried, emptied, drained, last, opened_with, boot>>

\* the App is dropped, and its receiver and what the channel held with it
Drop_app ==
    /\ pc = "exiting"
    /\ rx' = FALSE
    /\ queue' = <<>>
    /\ pc' = "exited"
    /\ UNCHANGED <<disk, settings, layout, settings_editor, ticker, ctx, io,
                   sent, applied, carried, emptied, drained, last, opened_with, boot>>

\* an autosave thread that saves by itself before it sends
Ticker_send_saving ==
    /\ ticker = "sleep"
    /\ IF rx
       THEN /\ sent < MaxMsgs
            /\ disk' = App_save_data(disk, settings, layout, "none", "none").disk
            /\ queue' = Send(queue, AutoSave(sent + 1, Phase))
            /\ sent' = sent + 1
            /\ ticker' = "repaint"
       ELSE /\ ticker' = "done"
            /\ UNCHANGED <<disk, queue, sent>>
    /\ UNCHANGED <<pc, settings, layout, settings_editor, rx, ctx, io,
                   applied, carried, emptied, drained, last, opened_with, boot>>

\* an autosave thread that goes on after a failed send
Ticker_send_ignoring_errors ==
    /\ ticker = "sleep"
    /\ IF rx
       THEN /\ sent < MaxMsgs
            /\ queue' = Send(queue, AutoSave(sent + 1, Phase))
            /\ sent' = sent + 1
            /\ ticker' = "repaint"
       ELSE /\ ticker' = "repaint"
            /\ UNCHANGED <<queue, sent>>
    /\ UNCHANGED <<pc, disk, settings, layout, settings_editor, rx, ctx, io,
                   applied, carried, emptied, drained, last, opened_with, boot>>

\* the autosave thread wakes from its sleep and sends AutoSave: with the
\* receiver there the message joins the queue, without it send is an error
\* and the loop breaks
Ticker_send ==
    /\ ticker = "sleep"
    /\ IF rx
       THEN /\ sent < MaxMsgs
            /\ queue' = Send(queue, AutoSave(sent + 1, Phase))
            /\ sent' = sent + 1
            /\ ticker' = "repaint"
       ELSE /\ ticker' = "done"
            /\ UNCHANGED <<queue, sent>>
    /\ UNCHANGED <<pc, disk, settings, layout, settings_editor, rx, ctx, io,
                   applied, carried, emptied, drained, last, opened_with, boot>>

\* a request for a repaint that is lost
request_repaint_lost(c) == c

\* Context::request_repaint: a frame is asked for
request_repaint(c) == [c EXCEPT !.repaint = TRUE]

\* the autosave thread, after a send that succeeded: ctx.request_repaint()
Ticker_repaint ==
    /\ ticker = "repaint"
    /\ ticker' = "sleep"
    /\ ctx' = request_repaint(ctx)
    /\ UNCHANGED <<pc, disk, settings, layout, settings_editor, queue, rx, io,
                   sent, applied, carried, emptied, drained, last, opened_with, boot>>

(***************************************************************************)
(* The program with a user who works the tiles: adds panes, closes tabs,   *)
(* opens the settings modal and leaves it by Cancel or Save.               *)
(***************************************************************************)
Next ==
    \/ App_init({[theme |-> "System", journal_path |-> Unset]})
    \/ Update_begin
    \/ Toolbar
    \/ Tiles_begin
    \/ top_bar_right_ui
    \/ Close_tab
    \/ Tiles_end
    \/ Modal({}, {})
    \/ Handle_message({"none"})
    \/ Drain_end
    \/ Update_end
    \/ on_exit({"none"})
    \/ Drop_app
    \/ Ticker_send
    \/ Ticker_repaint

Init == Start({FirstRunDisk})

Spec == Init /\ [][Next]_vars

(***************************************************************************)
(* The program with a user who works the settings modal.                   *)
(***************************************************************************)
SettingsNext ==
    \/ App_init(SettingsDefaults)
    \/ Update_begin
    \/ Toolbar
    \/ Tiles_begin
    \/ Tiles_end
    \/ Modal(Themes, Texts)
    \/ Handle_message({"none"})
    \/ Drain_end
    \/ Update_end
    \/ on_exit({"none"})
    \/ Drop_app
    \/ Ticker_send
    \/ Ticker_repaint

SettingsInit == Start({FirstRunDisk, SecondRunDisk})

SettingsSpec == SettingsInit /\ [][SettingsNext]_vars

(***************************************************************************)
(* Startup and shutdown over every data directory of InitDisks, with the   *)
(* file system failing as it may at the last save.                         *)
(***************************************************************************)
StartNext ==
    \/ App_init(SettingsDefaults)
    \/ on_exit(Faults)
    \/ Drop_app
    \/ Ticker_send
    \/ Ticker_repaint

StartInit == Start(InitDisks)

StartSpec == StartInit /\ [][StartNext]_vars

(***************************************************************************)
(* The persistence adapter alone: save_data and load_data called in any    *)
(* order on one of the two paths (io.path, chosen at the start), with any  *)
(* value and any failure.                                                  *)
(***************************************************************************)
\* the layouts handed to save_data
LayoutValues == {NewTabs(<<"Welcome">>), SavedLayout, EmptyTree}

ValuesFor(path) == IF path = SETTINGS_FILE THEN SettingsValues ELSE LayoutValues

\* what a file may hold before the first call
PersistFiles(path) ==
    {NoFile} \cup {Locked(Encode(path, v).out) : v \in ValuesFor(path)}
             \cup {File(Encode(path, v).out) : v \in ValuesFor(path)}

\* a call of save_data
Save_data ==
    /\ pc = "adapter"
    /\ \E path \in {io.path} :
         \E value \in ValuesFor(path), fault \in Faults :
           \E torn \in Prefixes(Encode(path, value).out) :
             LET r == save_data(disk, path, value, fault, torn)
             IN  /\ disk' = r.disk
                 /\ io' = [op |-> "save", path |-> path, value |-> Some(value),
                           res |-> r.res, after |-> None,
                           old |-> load_data(disk, path), new |-> Some(value)]
    /\ UNCHANGED <<pc, settings, layout, settings_editor, queue, rx, ticker, ctx,
                   sent, applied, carried, emptied, drained, last, opened_with,
                   boot>>

\* a call of save_data during which the process is stopped
Kill_in_save_data ==
    /\ pc = "adapter"
    /\ \E path \in {io.path} :
         \E value \in ValuesFor(path), step \in Steps :
           \E torn \in Prefixes(Encode(path, value).out) \cup {Encode(path, value).out} :
             /\ disk' = interrupted_save(disk, path, step, torn)
             /\ io' = [op |-> "killed", path |-> path, value |-> Some(value),
                       res |-> Err("killed"), after |-> None,
                       old |-> load_data(disk, path), new |-> Some(value)]
    /\ UNCHANGED <<pc, settings, layout, settings_editor, queue, rx, ticker, ctx,
                   sent, applied, carried, emptied, drained, last, opened_with,
                   boot>>

\* a call of load_data; `after` is the value of the save_data call that came
\* right before it, on the same path, and returned Ok; `old` and `new` are
\* what the file gave before the save_data call that came right before, and
\* the value of that call
Load_data ==
    /\ pc = "adapter"
    /\ \E path \in {io.path} :
         io' = [op |-> "load", path |-> path, value |-> None,
                res |-> load_data(disk, path),
                after |-> IF io.op = "save" /\ io.path = path /\ io.res.ok
                          THEN io.value ELSE None,
                old |-> IF io.op \in {"save", "killed"} THEN io.old ELSE Ok(None),
                new |-> IF io.op \in {"save", "killed"} THEN io.new ELSE None]
    /\ UNCHANGED <<pc, disk, settings, layout, settings_editor, queue, rx, ticker,
                   ctx, sent, applied, carried, emptied, drained, last,
                   opened_with, boot>>

PersistNext ==
    \/ Save_data
    \/ Kill_in_save_data
    \/ Load_data

PersistInit ==
    /\ pc = "adapter"
    /\ \E path \in Paths :
         /\ io = [NoIo EXCEPT !.path = path]
         /\ \E f \in PersistFiles(path) :
              disk = [p \in Paths |-> IF p = path THEN f ELSE NoFile]
    /\ settings = [theme |-> "System", journal_path |-> Unset]
    /\ layout = EmptyTree
    /\ settings_editor = None
    /\ queue = <<>>
    /\ rx = FALSE
    /\ ticker = "unborn"
    /\ ctx = [theme |-> "System", repaint |-> FALSE]
    /\ sent = 0
    /\ applied = 0
    /\ carried = 0
    /\ emptied = FALSE
    /\ drained = <<>>
    /\ last = None
    /\ opened_with = None
    /\ boot = None

PersistSpec == PersistInit /\ [][PersistNext]_vars

(***************************************************************************)
(* The program with the file system failing as it may at every save: the   *)
(* autosaves of the ticker, a settings modal, and the save of on_exit.     *)
(***************************************************************************)
AutosaveNext ==
    \/ App_init({[theme |-> "System", journal_path |-> Unset]})
    \/ Update_begin
    \/ Toolbar
    \/ Tiles_begin
    \/ Tiles_end
    \/ Modal({"Dark"}, {})
    \/ Handle_message(Faults)
    \/ Drain_end
    \/ Update_end
    \/ on_exit(Faults)
    \/ Drop_app
    \/ Ticker_send
    \/ Ticker_repaint

AutosaveInit == Start({FirstRunDisk, SecondRunDisk})

AutosaveSpec == AutosaveInit /\ [][AutosaveNext]_vars

(***************************************************************************)
(* The program with its scheduling: egui runs a frame when a repaint is    *)
(* requested, a frame that has begun runs to its end, and the autosave     *)
(* thread gets from its send to its request for a repaint. The user may    *)
(* cause more frames, open and leave the modal, and quit at any time.      *)
(***************************************************************************)
LiveNext ==
    \/ App_init({[theme |-> "System", journal_path |-> Unset]})
    \/ Update_begin
    \/ Toolbar
    \/ Tiles_begin
    \/ Tiles_end
    \/ Modal({}, {})
    \/ Handle_message({"none", "create"})
    \/ Drain_end
    \/ Update_end
    \/ on_exit({"none"})
    \/ Drop_app
    \/ Ticker_send
    \/ Ticker_repaint

\* a frame begun because a repaint is requested
Requested_frame == ctx.repaint /\ Update_begin

LiveSpec ==
    /\ Init
    /\ [][LiveNext]_vars
    /\ WF_vars(App_init({[theme |-> "System", journal_path |-> Unset]}))
    /\ WF_vars(Requested_frame)
    /\ WF_vars(Toolbar)
    /\ WF_vars(Tiles_begin)
    /\ WF_vars(Tiles_end)
    /\ WF_vars(Modal({}, {}))
    /\ WF_vars(Handle_message({"none", "create"}))
    /\ WF_vars(Drain_end)
    /\ WF_vars(Update_end)
    /\ WF_vars(Ticker_repaint)

(***************************************************************************)
(* handle_messages on AddPane messages of any parent: Message and the      *)
(* Sender are open to every pane through PaneContext, so the handler is    *)
(* checked on every tile identifier, not only on those the tab bars send.  *)
(***************************************************************************)
\* the trees the messages are applied to: the first-run tree, that tree
\* with an About pane added, and a saved split of two tab groups
AddPaneTrees ==
    {NewTabs(<<"Welcome">>), add_pane(NewTabs(<<"Welcome">>), 2, "About").layout,
     SavedLayout}

\* the AddPane messages, sent as the n-th message
AddPaneMessages(n) ==
    {AddPane(parent, USER_CREATABLE_PANES[i], n, "frame") :
        parent \in 0..MaxTileId, i \in DOMAIN USER_CREATABLE_PANES}

\* a frame that is about to drain a channel of one or two AddPane messages
AddPaneInit ==
    /\ pc = "drain"
    /\ disk = FirstRunDisk
    /\ settings = [theme |-> "System", journal_path |-> Unset]
    /\ layout \in AddPaneTrees
    /\ settings_editor = None
    /\ \E m1 \in AddPaneMessages(1) :
         \/ queue = <<m1>>
         \/ \E m2 \in AddPaneMessages(2) : queue = <<m1, m2>>
    /\ rx = TRUE
    /\ ticker = "sleep"
    /\ ctx = [theme |-> "System", repaint |-> FALSE]
    /\ io = NoIo
    /\ sent = Len(queue)
    /\ applied = 0
    /\ carried = 0
    /\ emptied = FALSE
    /\ drained = <<>>
    /\ last = None
    /\ opened_with = None
    /\ boot = None

AddPaneNext ==
    \/ Handle_message({"none"})
    \/ Drain_end
    \/ Update_end

AddPaneSpec == AddPaneInit /\ [][AddPaneNext]_vars

(***************************************************************************)
(* The properties.                                                         *)
(***************************************************************************)
\* whether id is a container of the tree l
ResolvesToContainer(l, id) == id \in DOMAIN l.tiles /\ IsContainer(l.tiles[id])

\* the steps of App::update at which the frame is rendered
RenderSteps == {"toolbar", "tiles", "tiles_ui"}

StaleParentLeavesTree ==
    \A l \in Range(last) :
        (/\ l.msg.type = "AddPane"
         /\ ~ResolvesToContainer(l.pre.layout, l.msg.parent))
        => /\ layout.tiles = l.pre.layout.tiles
           /\ layout.root = l.pre.layout.root
           /\ l.log = <<"warn: cannot open a new pane in non-container parent">>

\* the messages that were applied are the first `applied` that were sent, in
\* the order of sending, and those in the channel are the next ones
FifoOrder ==
    /\ \A i \in 1..Len(drained) : drained[i].n = applied - Len(drained) + i
    /\ rx => /\ \A i \in 1..Len(queue) : queue[i].n = applied + i
             /\ sent = applied + Len(queue)

\* C3 (as claimed): messages are applied in the order sent, and when the
\* application is gone every message that was sent has been applied.
ExactlyOnceInOrder ==
    /\ FifoOrder
    /\ pc = "exited" => applied = sent

\* C3 (amended): messages are applied at most once and in the order sent;
\* once a drain is over, all that is left unapplied, and all that the
\* shutdown drops, are AutoSave messages.
AtMostOnceInOrder ==
    /\ FifoOrder
    /\ pc \in {"returning", "idle", "exiting"} =>
         \A i \in 1..Len(queue) : queue[i].type = "AutoSave"

\* the drain of one frame applied AddPane(Welcome), AddPane(About) and
\* CloseSettingsModal(None), in that order: Welcome got the lower tile
\* identifier and the editor is closed
AtMostOnceInOrderWitness ==
    /\ pc = "drain"
    /\ queue = <<>>
    /\ Len(drained) = 3
    /\ drained[1].type = "AddPane" /\ drained[1].pane = "Welcome"
    /\ drained[2].type = "AddPane" /\ drained[2].pane = "About"
    /\ drained[3].type = "CloseSettingsModal" /\ drained[3].new_settings = None
    /\ drained[1].parent = 2 /\ drained[2].parent = 2
    /\ layout.tiles[2].children = <<1, 3, 4>>
    /\ layout.tiles[3] = Pane("Welcome") /\ layout.tiles[4] = Pane("About")
    /\ settings_editor = None

\* C4 (as claimed): while a frame is rendered, no message that was enqueued
\* during the frame before it is still in the channel.
AppliedBeforeNextRender ==
    pc \in RenderSteps =>
        \A i \in 1..Len(queue) : i <= carried => queue[i].at = "between"

\* C4 (amended): a message enqueued during a frame before that frame's drain
\* is over is applied in that frame; the messages of an earlier frame that
\* are in the channel while a frame is rendered are AutoSave messages that
\* the ticker enqueued after the drain of their frame was over.
AppliedBeforeDrainEnds ==
    /\ pc \in {"returning", "idle", "exiting"} =>
         \A i \in 1..Len(queue) : queue[i].at # "frame"
    /\ pc \in RenderSteps =>
         \A i \in 1..Len(queue) :
            i <= carried => queue[i].type = "AutoSave" /\ queue[i].at # "frame"

\* a frame is rendered with an AutoSave in the channel that was enqueued in
\* the frame before, after handle_messages had found the channel empty
AppliedBeforeDrainEndsWitness ==
    /\ pc = "tiles"
    /\ carried > 0
    /\ queue # <<>>
    /\ queue[1].at = "returning"

\* C5: after CloseSettingsModal without settings (Cancel) was applied, the
\* live Settings are those from before the modal was opened, the theme set
\* is the one set before, nothing was applied, and the editor is gone.
CancelLeavesSettings ==
    \A l \in Range(last) :
        (l.msg.type = "CloseSettingsModal" /\ l.msg.new_settings = None)
        => /\ l.pre.opened_with # None
           /\ settings = l.pre.opened_with[1]
           /\ settings = l.pre.settings
           /\ ctx.theme = l.pre.ctx.theme
           /\ l.log = <<>>
           /\ settings_editor = None

\* Cancel was applied to a modal whose draft had been set to Dark while the
\* live theme was another
CancelLeavesSettingsWitness ==
    \E l \in Range(last) :
        /\ l.msg.type = "CloseSettingsModal" /\ l.msg.new_settings = None
        /\ l.pre.settings_editor # None
        /\ l.pre.settings_editor[1].theme = "Dark"
        /\ l.pre.settings_editor[1].journal_path = JournalPath("String", "a")
        /\ l.pre.settings.theme # "Dark"

\* C6: after CloseSettingsModal with settings s (Save) was applied, and
\* before the next message is taken, the editor is gone, the live Settings
\* are s, which is the draft the editor held, and the theme of s is set.
SaveCommitsDraft ==
    \A l \in Range(last) :
        (l.msg.type = "CloseSettingsModal" /\ l.msg.new_settings # None)
        => /\ settings_editor = None
           /\ settings = l.msg.new_settings[1]
           /\ l.pre.settings_editor = l.msg.new_settings
           /\ ctx.theme = l.msg.new_settings[1].theme
           /\ l.log = <<"request_repaint", "set_theme">>

\* Save was applied with a draft that differs from the live settings in
\* theme and journal path
SaveCommitsDraftWitness ==
    \E l \in Range(last) :
        /\ l.msg.type = "CloseSettingsModal" /\ l.msg.new_settings # None
        /\ l.msg.new_settings[1].theme # l.pre.settings.theme
        /\ l.msg.new_settings[1].journal_path # l.pre.settings.journal_path
        /\ l.pre.ctx.theme # l.msg.new_settings[1].theme

\* C7: a tick of the autosave thread while the receiver exists enqueues one
\* AutoSave and the thread goes on; a tick after the receiver is gone
\* enqueues nothing and ends the thread; the thread ends in no other way and,
\* once ended, stays ended.
TickerShutdown ==
    [][/\ (ticker = "sleep" /\ ticker' # ticker /\ rx)
          => ticker' = "repaint" /\ queue' = Append(queue, AutoSave(sent + 1, Phase))
       /\ (ticker = "sleep" /\ ticker' # ticker /\ ~rx)
          => ticker' = "done" /\ queue' = queue
       /\ ticker' = "done" => ~rx /\ ~rx' /\ queue' = <<>>
       /\ ticker = "done" => ticker' = "done"
       /\ (ticker = "repaint" /\ ticker' # ticker) => ticker' = "sleep"]_vars

\* the autosave thread has ended, after a run in which it enqueued AutoSave
TickerShutdownWitness ==
    /\ ticker = "done"
    /\ ~rx
    /\ sent > 0

\* C8 (as claimed): when the layout file exists and fails to load, the
\* application starts with a tree that holds a single NoStorage pane, and
\* with the settings that the settings file gives.
CorruptLayoutFallback ==
    \A b \in Range(boot) :
        (/\ pc = "idle"
         /\ disk[LAYOUT_FILE].exists
         /\ b.layout = Err("RonSpannedError"))
        => /\ layout = NewTabs(<<"NoStorage">>)
           /\ settings = InitSettings(b.settings, b.default)

\* C9: load_data returns Ok(None) exactly when the file does not exist; it
\* returns Ok(Some(v)) when the file holds the document of v; it returns an
\* error when the file exists and cannot be read, or holds no document.
FirstRunDistinction ==
    io.op = "load" =>
        LET f == disk[io.path]
            docs == {v \in ValuesFor(io.path) :
                       Encode(io.path, v).ok /\ Encode(io.path, v).out = f.data}
        IN  /\ io.res = Ok(None) <=> ~f.exists
            /\ \A v \in docs : f.readable => io.res = Ok(Some(v))
            /\ (f.exists /\ (~f.readable \/ docs = {})) => ~io.res.ok

\* load_data reported a readable file that holds part of a document as an
\* error
FirstRunDistinctionWitness ==
    /\ io.op = "load"
    /\ disk[io.path].exists
    /\ disk[io.path].readable
    /\ disk[io.path].data # <<>>
    /\ io.res = Err("RonSpannedError")

\* C10 (as claimed): load_data right after a save_data of Settings s on the
\* same path that returned Ok returns Ok(Some(s)).
SettingsRoundTrip ==
    (io.op = "load" /\ io.path = SETTINGS_FILE /\ io.after # None)
    => io.res = Ok(io.after)

\* C11 (as claimed): when the settings file holds a document of an older
\* version, with journal_path and without theme, the load succeeds, the
\* journal path of the document is kept, and the theme is the default.
ForwardCompatibleSettings ==
    \A b \in Range(boot) :
        (pc = "idle" /\ disk[SETTINGS_FILE] = File(OldSettingsDoc))
        => /\ b.settings.ok
           /\ settings.journal_path = JournalPath("String", "a")
           /\ settings.theme = "System"

\* whether the file of path holds the document of value
Holds(d, path, value) == d[path] = File(Encode(path, value).out)

\* C12 (as claimed): after an AutoSave message was applied, the Settings,
\* the tile tree and the editor are those from before the message, the drain
\* goes on, and for each of the two files that does not hold the document
\* of the live value, a failed write, the failure was logged.
BestEffortAutosave ==
    \A l \in Range(last) :
        l.msg.type = "AutoSave"
        => /\ settings = l.pre.settings
           /\ layout = l.pre.layout
           /\ settings_editor = l.pre.settings_editor
           /\ pc = "drain"
           /\ ~Holds(disk, SETTINGS_FILE, settings)
                => \E i \in DOMAIN l.log : l.log[i] = "warn: error saving settings"
           /\ ~Holds(disk, LAYOUT_FILE, layout)
                => \E i \in DOMAIN l.log : l.log[i] = "warn: error saving layout"

\* C13: when load_data follows a save_data call on a file that held a valid
\* value, whether the call returned or was stopped at any of its steps, a
\* value that load_data decodes is the old value or the new one; and a file
\* that holds only the head of the new document is not decoded.
SaveAtomicity ==
    (io.op = "load" /\ io.new # None /\ io.old.ok /\ io.old.value # None)
    => LET doc == Encode(io.path, io.new[1]).out
           data == disk[io.path].data
       IN  /\ (io.res.ok /\ io.res.value # None)
                => io.res.value \in {io.old.value, io.new}
           /\ (Len(data) < Len(doc) /\ data = SubSeq(doc, 1, Len(data)))
                => ~io.res.ok

\* load_data rejected the file that a save of a new value, over an old one,
\* left half-written
SaveAtomicityWitness ==
    /\ io.op = "load"
    /\ io.new # None
    /\ io.old.ok /\ io.old.value # None /\ io.old.value # io.new
    /\ disk[io.path].data # <<>>
    /\ Len(disk[io.path].data) < Len(Encode(io.path, io.new[1]).out)
    /\ disk[io.path].data = SubSeq(Encode(io.path, io.new[1]).out, 1, Len(disk[io.path].data))
    /\ ~io.res.ok

MissingFilesDefaults ==
    \A b \in Range(boot) :
        pc = "idle" =>
          /\ ~disk[SETTINGS_FILE].exists
               => /\ settings = b.default
                  /\ settings.theme = "System"
                  /\ settings.journal_path \in JournalPathDefaults
          /\ ~disk[LAYOUT_FILE].exists
               => /\ layout.root \in DOMAIN layout.tiles
                  /\ layout.tiles[layout.root].kind = "Tabs"
                  /\ Len(layout.tiles[layout.root].children) = 1
                  /\ layout.tiles[layout.tiles[layout.root].children[1]] = Pane("Welcome")
                  /\ Cardinality(DOMAIN layout.tiles) = 2
          /\ Holds(disk, SETTINGS_FILE, SavedSettings) => settings = SavedSettings
          /\ Holds(disk, LAYOUT_FILE, SavedLayout) => layout = SavedLayout

\* the application started on saved settings and no layout file
MissingFilesDefaultsWitness ==
    /\ pc = "idle"
    /\ boot # None
    /\ disk = SecondRunDisk
    /\ settings = SavedSettings
    /\ settings # [theme |-> "System", journal_path |-> Unset]
    /\ layout = NewTabs(<<"Welcome">>)

\* C16: once App::init has loaded them, the live Settings change only in
\* the step that applies a CloseSettingsModal message with settings, and
\* they become the settings of the message; no other step of a frame, of
\* the drain, of the ticker or of the shutdown changes them.
SettingsChangeOnlyByCommit ==
    [][(settings' # settings /\ pc # "start")
       => /\ pc = "drain"
          /\ queue # <<>>
          /\ Head(queue).type = "CloseSettingsModal"
          /\ Head(queue).new_settings = Some(settings')]_vars

\* a commit has changed the theme of the live Settings from Dark to Light
SettingsChangeOnlyByCommitWitness ==
    \E l \in Range(last) :
        /\ l.msg.type = "CloseSettingsModal"
        /\ l.pre.settings.theme = "Dark"
        /\ settings.theme = "Light"
        /\ settings.journal_path = l.pre.settings.journal_path

\* C17: after an AddPane message whose parent is a container of the tree
\* was applied, the tree has one tile more, a pane of the type of the
\* message under a fresh identifier; that identifier is the last child of
\* the parent, after the children the parent had; every other tile and the
\* root are as before; and a parent that is a tab group has the new tile as
\* its active tab, while another container keeps what it had.
AddPaneIntoContainer ==
    \A l \in Range(last) :
        (/\ l.msg.type = "AddPane"
         /\ ResolvesToContainer(l.pre.layout, l.msg.parent))
        => LET old == l.pre.layout
               child == old.next_tile_id
               parent == l.msg.parent
           IN  /\ child \notin DOMAIN old.tiles
               /\ DOMAIN layout.tiles = DOMAIN old.tiles \cup {child}
               /\ layout.tiles[child] = Pane(l.msg.pane)
               /\ layout.tiles[parent].children
                    = Append(old.tiles[parent].children, child)
               /\ layout.tiles[parent].kind = old.tiles[parent].kind
               /\ \A i \in DOMAIN old.tiles \ {parent} :
                    layout.tiles[i] = old.tiles[i]
               /\ layout.root = old.root
               /\ layout.tiles[parent].active
                    = IF old.tiles[parent].kind = "Tabs" THEN child
                      ELSE old.tiles[parent].active
               /\ l.log = <<>>

\* an About pane was added to the tab group of the first-run tree, behind
\* the Welcome pane, and is the active tab
AddPaneIntoContainerWitness ==
    \E l \in Range(last) :
        /\ l.msg.type = "AddPane" /\ l.msg.parent = 2 /\ l.msg.pane = "About"
        /\ l.pre.layout = NewTabs(<<"Welcome">>)
        /\ layout.tiles[2] = Tabs(<<1, 3>>, 3)
        /\ layout.tiles[3] = Pane("About")

\* C18: there is no editor before and right after App::init; an editor
\* comes into being only at the toolbar step, by a click on Settings, as a
\* copy of the live Settings; while it exists only the modal step changes
\* its draft; it goes only in the step that applies a CloseSettingsModal
\* message, and every such step, with settings or without, leaves no editor.
EditorLifetime ==
    [][/\ pc = "start" => settings_editor = None /\ settings_editor' = None
       /\ (settings_editor' # settings_editor /\ settings_editor' # None)
          => \/ pc = "toolbar" /\ settings_editor' = Some(settings)
             \/ pc = "modal" /\ settings_editor # None
       /\ (settings_editor # None /\ settings_editor' = None)
          => /\ pc = "drain"
             /\ queue # <<>>
             /\ Head(queue).type = "CloseSettingsModal"
       /\ (pc = "drain" /\ applied' = applied + 1
             /\ Head(queue).type = "CloseSettingsModal")
          => settings_editor' = None]_vars

\* an AutoSave and then a CloseSettingsModal were applied in one drain: the
\* editor was still there after the AutoSave, and is gone after the close
EditorLifetimeWitness ==
    /\ pc = "drain"
    /\ Len(drained) = 2
    /\ drained[1].type = "AutoSave"
    /\ drained[2].type = "CloseSettingsModal"
    /\ \E l \in Range(last) : l.pre.settings_editor # None
    /\ settings_editor = None

\* C19: a file of the data directory changes only in a step of the UI
\* thread that applies an AutoSave message, or in on_exit; no step that
\* applies another message, no step of rendering and no step of the
\* autosave thread changes a file.
WritesOnlyAtAutoSaveOrExit ==
    [][disk' # disk
       => /\ ticker' = ticker
          /\ \/ /\ pc = "drain"
                /\ queue # <<>>
                /\ Head(queue).type = "AutoSave"
                /\ applied' = applied + 1
             \/ pc = "idle" /\ pc' = "exiting"]_vars

\* an AddPane and then an AutoSave were applied in one drain: the files
\* were as on the first run after the AddPane, and the AutoSave wrote them
WritesOnlyAtAutoSaveOrExitWitness ==
    /\ pc = "drain"
    /\ Len(drained) = 2
    /\ drained[1].type = "AddPane"
    /\ drained[2].type = "AutoSave"
    /\ \E l \in Range(last) : l.pre.disk = FirstRunDisk
    /\ Holds(disk, SETTINGS_FILE, settings)
    /\ Holds(disk, LAYOUT_FILE, layout)

\* an AutoSave waits in the channel of an application that has not begun to exit
QueuedAutoSave ==
    /\ pc \notin {"exiting", "exited"}
    /\ \E i \in DOMAIN queue : queue[i].type = "AutoSave"

\* the handler has just taken an AutoSave in its turn and attempted the save,
\* and no AutoSave waits behind it
AppliedAutoSave ==
    /\ \A i \in DOMAIN queue : queue[i].type # "AutoSave"
    /\ \E l \in Range(last) :
         /\ l.msg.type = "AutoSave"
         /\ applied >= l.msg.n
         /\ l.log # <<>>
         /\ l.log[1] = "info: saving persistent data..."

\* C20: after each send of AutoSave that succeeded the autosave thread
\* requests a repaint; and, with a frame run whenever a repaint is
\* requested, the AutoSave messages enqueued before on_exit are in the end
\* all applied, the save attempted, unless on_exit, with its save, comes
\* first.
AutosaveEventuallyHappens ==
    /\ (ticker = "repaint") ~> (ticker = "sleep" /\ ctx.repaint)
    /\ QueuedAutoSave ~> (AppliedAutoSave \/ pc = "exiting")

\* an AutoSave that was enqueued between two frames was applied by the
\* frame that followed, and its save of the settings failed and was logged
AutosaveEventuallyHappensWitness ==
    /\ pc = "drain"
    /\ \E l \in Range(last) :
         /\ l.msg.type = "AutoSave"
         /\ l.msg.at = "between"
         /\ l.log = <<"info: saving persistent data...", "warn: error saving settings">>
    /\ Holds(disk, LAYOUT_FILE, layout)

\* C21: no send of the UI thread fails. The receiver is a field of App, so it
\* exists at every step of App::update, whatever the autosave thread does;
\* the unwrap after the send of AddPane and after the send of
\* CloseSettingsModal never panics.
UiSendsNeverFail ==
    /\ pc # "panicked"
    /\ pc \in {"toolbar", "tiles", "tiles_ui", "modal", "drain", "returning"} => rx

\* one frame sent AddPane from the "+" menu and CloseSettingsModal from the
\* modal, and the autosave thread sent AutoSave between the two
UiSendsNeverFailWitness ==
    /\ pc = "drain"
    /\ Len(queue) = 3
    /\ queue[1].type = "AddPane" /\ queue[1].at = "frame"
    /\ queue[2].type = "AutoSave" /\ queue[2].at = "frame"
    /\ queue[3].type = "CloseSettingsModal" /\ queue[3].at = "frame"

\* C22: the two saves of App::save_data are independent. After an AutoSave
\* was applied, the settings file is what a save of the settings alone leaves
\* and the layout file is what a save of the layout alone leaves, each with
\* a failure of its own or none, and each failure that was reported is
\* logged: a settings save that failed does not keep the layout save from
\* being attempted, and the layout save does not change the settings file.
IndependentSaves ==
    \A l \in Range(last) :
        l.msg.type = "AutoSave" =>
          \E f1 \in Faults, f2 \in Faults :
            LET a == save_data(l.pre.disk, SETTINGS_FILE, l.pre.settings, f1, AppTorn)
                b == save_data(l.pre.disk, LAYOUT_FILE, l.pre.layout, f2, AppTorn)
            IN  /\ disk[SETTINGS_FILE] = a.disk[SETTINGS_FILE]
                /\ disk[LAYOUT_FILE] = b.disk[LAYOUT_FILE]
                /\ l.log = <<"info: saving persistent data...">>
                           \o (IF a.res.ok THEN <<>>
                               ELSE <<"warn: error saving settings">>)
                           \o (IF b.res.ok THEN <<>>
                               ELSE <<"warn: error saving layout">>)

\* on a first run the save of the settings failed, leaving no settings file,
\* and the layout file, not there before, was written in full
IndependentSavesWitness ==
    \E l \in Range(last) :
        /\ l.msg.type = "AutoSave"
        /\ ~l.pre.disk[LAYOUT_FILE].exists
        /\ l.log = <<"info: saving persistent data...", "warn: error saving settings">>
        /\ ~disk[SETTINGS_FILE].exists
        /\ Holds(disk, LAYOUT_FILE, layout)

====
